---- MODULE Spec2Model ----
(***************************************************************************)
(* State-machine model of pynx587e.controller.PanelInterface               *)
(* (src/pynx587e/controller.py).                                           *)
(*                                                                         *)
(* Conventions                                                             *)
(*   - a Python str is a sequence of one-character strings; the token      *)
(*     "U00BD" stands for the single code point U+00BD (vulgar fraction    *)
(*     one half), a character for which str.isnumeric() is True and        *)
(*     str.isdigit()/int() are not;                                        *)
(*   - a Python bool is 1 (True) or 0 (False), as bool is a subclass of    *)
(*     int and True == 1; the FlexDevice "never set" sentinel is -1;       *)
(*   - a call made by the application thread leaves its outcome in         *)
(*     cmdRet / queryRet: [kind |-> "return", ...] or                      *)
(*     [kind |-> "raise", exc |-> <exception class>].                      *)
(***************************************************************************)
EXTENDS Integers, Sequences, FiniteSets, TLC

\* ------------------------------------------------------------------ bounds
\* largest max_zone / max_partitions passed to the constructor
MaxZone == 1
MaxPartitions == 1
\* number of readline() calls the Transport answers
MaxReads == 3
\* number of panel_command calls of the application
MaxCommands == 1
\* getStatus is asked about the first MaxQueryAttr elements of a type
MaxQueryAttr == 1
MaxQueued == 2

\* ------------------------------------------------------- program constants
_ZONE_ELEMENTS ==
  <<"fault", "tamper", "trouble", "bypass", "alarmMemory", "inhibit",
    "lowBattery", "lost", "memoryBypass">>

_PARTITION_ELEMENTS ==
  <<"ready", "armed", "stay", "chime", "entryDelay", "exitPeriod",
    "previousAlarm", "siren">>

_NX_MESSAGE_TYPES == [k \in {"ZN", "PA"} |->
                        IF k = "ZN" THEN _ZONE_ELEMENTS ELSE _PARTITION_ELEMENTS]

START_UP_OPTIONS == <<"t", "a", "l", "i", "P", "Z", "n">>

\* value a FlexDevice element holds before its first set()
UNKNOWN == -1

\* ------------------------------------------------------------ Python str
DecimalChars == {"0", "1", "2", "3", "4", "5", "6", "7", "8", "9"}
\* characters c with c.isnumeric(): the decimal digits and e.g. U+00BD
NumericChars == DecimalChars \cup {"U00BD"}
UpperChars == {"A", "B", "C", "E", "F", "I", "K", "L", "M", "P", "Q", "R",
               "S", "T", "X", "Z", "N", "H"}
WhitespaceChars == {" ", "\n", "\r"}

\* s[a:b] for 0 <= a, 0 <= b (0-based, stop exclusive, clipped to len(s))
Slice(s, a, b) ==
  LET stop == IF b > Len(s) THEN Len(s) ELSE b
  IN  IF a >= stop THEN <<>> ELSE SubSeq(s, a + 1, stop)

\* s.isnumeric(): non-empty and every character numeric
IsNumeric(s) == Len(s) > 0 /\ \A i \in 1..Len(s) : s[i] \in NumericChars

\* int(s) is defined exactly when every character is a decimal digit
IsDecimal(s) == Len(s) > 0 /\ \A i \in 1..Len(s) : s[i] \in DecimalChars

IsUpperInverted(c) == c \notin UpperChars

\* c.isupper()
IsUpper(c) == c \in UpperChars

DigitValue(c) ==
  CASE c = "0" -> 0 [] c = "1" -> 1 [] c = "2" -> 2 [] c = "3" -> 3
    [] c = "4" -> 4 [] c = "5" -> 5 [] c = "6" -> 6 [] c = "7" -> 7
    [] c = "8" -> 8 [] c = "9" -> 9

DigitChar(d) ==
  CASE d = 0 -> "0" [] d = 1 -> "1" [] d = 2 -> "2" [] d = 3 -> "3"
    [] d = 4 -> "4" [] d = 5 -> "5" [] d = 6 -> "6" [] d = 7 -> "7"
    [] d = 8 -> "8" [] d = 9 -> "9"

\* int(s) for a string of decimal digits
RECURSIVE ToInt(_)
ToInt(s) ==
  IF Len(s) = 0 THEN 0
  ELSE 10 * ToInt(SubSeq(s, 1, Len(s) - 1)) + DigitValue(s[Len(s)])

\* str(n) for n >= 0
RECURSIVE Str(_)
Str(n) ==
  IF n < 10 THEN <<DigitChar(n)>>
  ELSE Append(Str(n \div 10), DigitChar(n % 10))

\* s.zfill(width)
RECURSIVE Zfill(_, _)
Zfill(s, width) == IF Len(s) >= width THEN s ELSE Zfill(<<"0">> \o s, width)

\* s.strip(): leading and trailing whitespace removed
RECURSIVE LStrip(_)
LStrip(s) ==
  IF Len(s) > 0 /\ s[1] \in WhitespaceChars THEN LStrip(Tail(s)) ELSE s

RECURSIVE RStrip(_)
RStrip(s) ==
  IF Len(s) > 0 /\ s[Len(s)] \in WhitespaceChars
  THEN RStrip(SubSeq(s, 1, Len(s) - 1)) ELSE s

Strip(s) == RStrip(LStrip(s))

\* command.encode(): the UTF-8 bytes of a str, one token per byte
EncodeChar(c) == IF c = "U00BD" THEN <<"xC2", "xBD">> ELSE <<c>>

RECURSIVE Encode(_)
Encode(s) == IF Len(s) = 0 THEN <<>> ELSE EncodeChar(s[1]) \o Encode(Tail(s))

\* ------------------------------------------------------- command tables
partial == <<"p", "a", "r", "t", "i", "a", "l">>
chime == <<"c", "h", "i", "m", "e">>
exit == <<"e", "x", "i", "t">>
bypass == <<"b", "y", "p", "a", "s", "s">>
on == <<"o", "n">>
fire == <<"f", "i", "r", "e">>
medical == <<"m", "e", "d", "i", "c", "a", "l">>
hold_up == <<"h", "o", "l", "d", "_", "u", "p">>
stay == <<"s", "t", "a", "y">>
cancel == <<"c", "a", "n", "c", "e", "l">>

AUNZCommands ==
  (partial :> <<"K">>) @@ (chime :> <<"C">>) @@ (exit :> <<"E">>) @@
  (bypass :> <<"B">>) @@ (on :> <<"S">>) @@ (fire :> <<"F">>) @@
  (medical :> <<"M">>) @@ (hold_up :> <<"H">>)

USACommands ==
  (stay :> <<"S">>) @@ (chime :> <<"C">>) @@ (exit :> <<"E">>) @@
  (bypass :> <<"B">>) @@ (cancel :> <<"K">>) @@ (fire :> <<"F">>) @@
  (medical :> <<"M">>) @@ (hold_up :> <<"H">>)

supported_commands_default(km) == USACommands

\* the table panel_command selects: AUNZ when _keymap == "AUNZ", else the default
supported_commands(km) == IF km = "AUNZ" THEN AUNZCommands ELSE USACommands

\* panel_command up to the put: what the call does with in_command.
\*   in_command.isnumeric() and (len(in_command) == 4 or len(in_command == 6)):
\*   for a numeric string of any other length the right operand is evaluated and
\*   len() of a bool raises TypeError; a string that is neither numeric nor in
\*   the table leaves `command` unassigned and `command != ""` raises
\*   UnboundLocalError.
CommandOutcome(km, in_command) ==
  IF IsNumeric(in_command)
  THEN IF Len(in_command) = 4
       THEN [kind |-> "return", command |-> in_command]
       ELSE [kind |-> "raise", exc |-> "TypeError"]
  ELSE IF in_command \in DOMAIN supported_commands(km)
       THEN [kind |-> "return", command |-> supported_commands(km)[in_command]]
       ELSE [kind |-> "raise", exc |-> "UnboundLocalError"]

\* ----------------------------------------------------------- direct query
DirectQueryStringUnpadded(query_type, id) ==
  IF query_type = "PA" THEN <<"Q">> \o Str(192 + id)
  ELSE <<"Q">> \o Str(id)

\* the string _direct_query builds for an accepted (query_type, id)
DirectQueryString(query_type, id) ==
  IF query_type = "PA" THEN <<"Q">> \o Str(192 + id)
  ELSE <<"Q">> \o Zfill(Str(id), 3)

\* the commands _direct_query puts for (query_type, id): none or one
DirectQueryPut(maxdev, query_type, id) ==
  IF query_type \in DOMAIN _NX_MESSAGE_TYPES /\ id <= maxdev[query_type]
  THEN <<DirectQueryString(query_type, id)>>
  ELSE <<>>

PrimingQueriesNone(maxdev, device, n) == <<>>

\* the direct queries of the constructor's loop for one device type, ids 1..n
RECURSIVE PrimingQueries(_, _, _)
PrimingQueries(maxdev, device, n) ==
  IF n <= 0 THEN <<>>
  ELSE PrimingQueries(maxdev, device, n - 1) \o DirectQueryPut(maxdev, device, n)

\* ------------------------------------------------------------ status lines
KeyChars(k) == IF k = "ZN" THEN <<"Z", "N">> ELSE <<"P", "A">>

\* the while loop of _process_event that finds the id: num_char grows while
\* raw_event[2:num_char] is numeric.  The slice stops growing at the end of
\* the line, so a line that is numeric from offset 2 to its end never leaves
\* the loop.  int() raises ValueError on a numeric non-decimal character.
RECURSIVE ScanId(_, _)
ScanId(raw_event, num_char) ==
  LET s == Slice(raw_event, 2, num_char)
  IN  IF ~IsNumeric(s)
      THEN [kind |-> "ok", id_start_char |-> num_char - 1]
      ELSE IF ~IsDecimal(s) THEN [kind |-> "raise", exc |-> "ValueError"]
      ELSE IF num_char >= Len(raw_event) THEN [kind |-> "hang"]
      ELSE ScanId(raw_event, num_char + 1)

NXMessageOfLowerUnknown(elements, chars) ==
  [i \in 1..Len(chars) |->
     [tag |-> elements[i], value |-> IF IsUpper(chars[i]) THEN 1 ELSE UNKNOWN]]

\* NXMessage: the characters after the id, without the last character of the
\* line, paired with the element names in order
NXMessageOf(elements, chars) ==
  [i \in 1..Len(chars) |->
     [tag |-> elements[i], value |-> IF IsUpper(chars[i]) THEN 1 ELSE 0]]

IdInRangeAlways(maxdev, key, id) == TRUE

\* the range test of line 209
IdInRange(maxdev, key, id) == id <= maxdev[key]

\* _process_event up to the range test of line 209
Decode(maxdev, raw_event) ==
  LET keys == {k \in DOMAIN _NX_MESSAGE_TYPES : Slice(raw_event, 0, 2) = KeyChars(k)}
  IN  IF keys = {} THEN [kind |-> "nomatch"]
      ELSE
        LET key == CHOOSE k \in keys : TRUE
            scan == ScanId(raw_event, 3)
        IN  IF scan.kind # "ok" THEN scan
            ELSE
              LET chars == Slice(raw_event, scan.id_start_char, Len(raw_event) - 1)
                  digits == Slice(raw_event, 2, scan.id_start_char)
              IN  IF Len(chars) > Len(_NX_MESSAGE_TYPES[key])
                  THEN [kind |-> "raise", exc |-> "IndexError"]
                  ELSE IF Len(digits) = 0
                  THEN [kind |-> "raise", exc |-> "UnboundLocalError"]
                  ELSE IF IdInRange(maxdev, key, ToInt(digits))
                  THEN [kind |-> "msg", key |-> key, id |-> ToInt(digits),
                        NXMessage |-> NXMessageOf(_NX_MESSAGE_TYPES[key], chars)]
                  ELSE [kind |-> "ignored"]

\* list[i] with Python's negative indexing: the 1-based position, 0 if IndexError
PyIndex(len, i) ==
  IF 0 <= i /\ i < len THEN i + 1
  ELSE IF i < 0 /\ -i <= len THEN len + i + 1
  ELSE 0

\* ------------------------------------------------------------- FlexDevice
\* pynx587e/flexdevice.py: a device holds, per element, a value (-1 until the
\* first set) and the time of the last set (element + "_time")
FlexDevice(elements) ==
  [e \in {elements[i] : i \in 1..Len(elements)} |-> [value |-> UNKNOWN, time |-> UNKNOWN]]

FlexGet(dev, element) == dev[element].value

FlexGetTime(dev, element) == dev[element].time

FlexSet(dev, element, value, now) ==
  [dev EXCEPT ![element] = [value |-> value, time |-> now]]

\* ------------------------------------------------------------------ inputs
\* constructor arguments
ZoneArgs == 1..MaxZone
PartitionArgs == 0..MaxPartitions
KeymapArgs == {"USA", "AUNZ", "EU"}
\* status lines are processed without reading _keymap: one valid keymap and
\* one the constructor refuses
PipelineKeymapArgs == {"USA", "EU"}

\* lines as Serialreader.readline().decode() returns them: zone 1 with fault
\* and tamper set or clear, the same with a trailing carriage return, a
\* partition line (above the max when max_partitions is 0), a blank line
WireLines ==
  { <<"Z", "N", "0", "0", "1", "F", "t", "b">>,
    <<"Z", "N", "0", "0", "1", "f", "t", "b">>,
    <<"Z", "N", "0", "0", "1", "F", "T", "b", "\r">>,
    <<"P", "A", "1", "R", "a", "s">>,
    <<" ", "\r">> }

\* zone 1 with fault set, then clear
FlipLines ==
  { <<"Z", "N", "0", "0", "1", "F", "t", "b">>,
    <<"Z", "N", "0", "0", "1", "f", "t", "b">> }

\* lines the protocol does not allow beside two it does: an unknown tag, a
\* tag with no id, an id above every configured max, an id that ends the line
ProtocolLines ==
  { <<"Z", "N", "0", "0", "1", "F", "t", "b">>,
    <<"Z", "N", "0", "0", "1", "f", "t", "b">>,
    <<"X", "X", "0", "0", "1", "F", "t", "b">>,
    <<"Z", "N", "F", "t", "b">>,
    <<"Z", "N", "0", "0", "9", "f", "T", "b">>,
    <<"Z", "N", "0", "0", "1">> }

\* full status lines as _process_event is given them (stripped, the last
\* character still there): the lines of the comments of lines 38 and 56 and
\* their opposites, and a zone line with a one-digit id
CodecLines ==
  { <<"Z", "N", "0", "0", "1", "F", "t", "t", "B", "a", "i", "l", "l", "b", "$">>,
    <<"Z", "N", "0", "0", "1", "f", "T", "T", "b", "A", "I", "L", "L", "B", "$">>,
    <<"Z", "N", "1", "F", "t", "t", "B", "a", "i", "l", "l", "B", "$">>,
    <<"P", "A", "1", "R", "a", "s", "C", "e", "E", "p", "s", "$">>,
    <<"P", "A", "1", "r", "A", "S", "c", "E", "e", "P", "S", "$">> }

\* a line for zone 1 and lines that name zone 0
ZeroIdLines ==
  { <<"Z", "N", "0", "0", "1", "F", "t", "b">>,
    <<"Z", "N", "0", "0", "0", "f", "T", "b">>,
    <<"Z", "N", "0", "F", "t", "b">> }

\* query ids at and below the lower end of 1..max
ZeroIdQueryIds == {-1, 0, 1}

CommandInputs ==
  (DOMAIN AUNZCommands) \cup (DOMAIN USACommands) \cup
  { <<"1", "2", "3", "4">>,
    <<"1", "2", "3", "4", "5", "6">>,
    <<"1", "2", "3", "4", "5">>,
    <<"U00BD", "U00BD", "U00BD", "U00BD">>,
    <<"a", "r", "m">>,
    <<>> }

QueryTypes == {"ZN", "PA", "XX"}
QueryIds == (0 .. (MaxZone + 1)) \cup {9999}
\* queries of the devices every configuration has
PipelineQueryTypes == DOMAIN _NX_MESSAGE_TYPES
PipelineQueryIds == 1 .. MaxZone
QueryElements(query_type) ==
  IF query_type \in DOMAIN _NX_MESSAGE_TYPES
  THEN {_NX_MESSAGE_TYPES[query_type][i] : i \in 1..MaxQueryAttr}
  ELSE {"fault"}

\* arguments of _direct_query called on its own: maxima that put zone 5,
\* zone 100 and partition 2 in range, ids of one, two and three digits
DirectQueryZoneArgs == {MaxZone, 5, 100}
DirectQueryPartitionArgs == {MaxPartitions, 2, 8}
DirectQueryTypes == {"ZN", "PA", "XX"}
DirectQueryIds == {1, 2, 5, 6, 8, 9, 10, 99, 100, 101}

\* ------------------------------------------------------------------- state
VARIABLES
  args,            \* the constructor's arguments max_zone, max_partitions, keymap
  ctl,             \* where the constructing thread is: "new", "control",
                   \* "configure", "ready" (constructed) or "raised" (KeyMapError)
  keymap,          \* self._keymap
  run_flag,        \* self._run_flag
  command_q,       \* self._command_q
  raw_event_q,     \* self._raw_event_q; each line tagged with its arrival number
  deviceBank,      \* self.deviceBank: type -> list of FlexDevice
  serial_conn,     \* "none" or "open": the serial.Serial of _control
  writerPc,        \* _serial_writer: "unstarted", "get", "dead"
  readerPc,        \* _serial_reader: "unstarted", "read"
  epPc,            \* _event_producer: "unstarted", "loop", "get", "attr",
                   \* "callback", "hung", "dead", "exited"
  ep,              \* locals of the _process_event call in progress, or
                   \* how the last call ended when it found no message
  clock,           \* the time FlexDevice.set records
  written,         \* what serial_conn.write was given, in order
  reads,           \* readline() calls answered so far
  transportFailed, \* some readline() raised serial.SerialException
  delivered,       \* the calls of callbackf so far, in order
  active,          \* the calls of callbackf that have not returned
  nCommands,       \* panel_command calls made
  cmdRet,          \* what the last panel_command call was given and did
  queryRet         \* what the last getStatus call returned

vars == <<args, ctl, keymap, run_flag, command_q, raw_event_q, deviceBank,
          serial_conn, writerPc, readerPc, epPc, ep, clock, written, reads,
          transportFailed, delivered, active, nCommands, cmdRet, queryRet>>

ctlVars == <<args, ctl, keymap>>
threadPcs == <<writerPc, readerPc, epPc>>
callVars == <<nCommands, cmdRet, queryRet>>
epVars == <<epPc, ep, clock, deviceBank, delivered, active>>

\* self._NX_MAX_DEVICES
_NX_MAX_DEVICES ==
  [k \in {"ZN", "PA"} |-> IF k = "ZN" THEN args.max_zone ELSE args.max_partitions]

NoCall == [kind |-> "none"]
NoEvent == [kind |-> "idle"]

Init ==
  /\ args = [max_zone |-> 0, max_partitions |-> 0, keymap |-> "unset"]
  /\ ctl = "new"
  /\ keymap = "unset"
  /\ run_flag = TRUE
  /\ command_q = <<>>
  /\ raw_event_q = <<>>
  /\ deviceBank = [k \in {"ZN", "PA"} |-> <<>>]
  /\ serial_conn = "none"
  /\ writerPc = "unstarted"
  /\ readerPc = "unstarted"
  /\ epPc = "unstarted"
  /\ ep = NoEvent
  /\ clock = 0
  /\ written = <<>>
  /\ reads = 0
  /\ transportFailed = FALSE
  /\ delivered = <<>>
  /\ active = <<>>
  /\ nCommands = 0
  /\ cmdRet = NoCall
  /\ queryRet = NoCall

\* a constructed Controller with its workers started, the bank unprimed and
\* two full status lines read and waiting: the inputs of the decoder
CodecInit ==
  /\ \E max_zone \in ZoneArgs, max_partitions \in PartitionArgs :
       LET maxdev == [k \in {"ZN", "PA"} |->
                       IF k = "ZN" THEN max_zone ELSE max_partitions]
       IN  /\ args = [max_zone |-> max_zone, max_partitions |-> max_partitions,
                      keymap |-> "USA"]
           /\ deviceBank = [k \in {"ZN", "PA"} |->
                              [i \in 1..maxdev[k] |-> FlexDevice(_NX_MESSAGE_TYPES[k])]]
           /\ command_q = PrimingQueries(maxdev, "ZN", maxdev["ZN"])
                             \o PrimingQueries(maxdev, "PA", maxdev["PA"])
                             \o <<START_UP_OPTIONS>>
  /\ \E first \in CodecLines, second \in CodecLines :
       raw_event_q = <<[line |-> first, src |-> 1], [line |-> second, src |-> 2]>>
  /\ ctl = "ready"
  /\ keymap = "USA"
  /\ run_flag = TRUE
  /\ serial_conn = "open"
  /\ writerPc = "get"
  /\ readerPc = "read"
  /\ epPc = "loop"
  /\ ep = NoEvent
  /\ clock = 0
  /\ written = <<>>
  /\ reads = 2
  /\ transportFailed = FALSE
  /\ delivered = <<>>
  /\ active = <<>>
  /\ nCommands = 0
  /\ cmdRet = NoCall
  /\ queryRet = NoCall

\* a constructed Controller whose Writer has written the priming queries and
\* the setup string: where _direct_query is called on its own
DirectQueryInit ==
  /\ \E max_zone \in DirectQueryZoneArgs, max_partitions \in DirectQueryPartitionArgs :
       LET maxdev == [k \in {"ZN", "PA"} |->
                       IF k = "ZN" THEN max_zone ELSE max_partitions]
           startup == PrimingQueries(maxdev, "ZN", maxdev["ZN"])
                        \o PrimingQueries(maxdev, "PA", maxdev["PA"])
                        \o <<START_UP_OPTIONS>>
       IN  /\ args = [max_zone |-> max_zone, max_partitions |-> max_partitions,
                      keymap |-> "USA"]
           /\ deviceBank = [k \in {"ZN", "PA"} |->
                              [i \in 1..maxdev[k] |-> FlexDevice(_NX_MESSAGE_TYPES[k])]]
           /\ written = [i \in 1..Len(startup) |-> Encode(startup[i])]
  /\ command_q = <<>>
  /\ raw_event_q = <<>>
  /\ ctl = "ready"
  /\ keymap = "USA"
  /\ run_flag = TRUE
  /\ serial_conn = "open"
  /\ writerPc = "get"
  /\ readerPc = "read"
  /\ epPc = "loop"
  /\ ep = NoEvent
  /\ clock = 0
  /\ reads = 0
  /\ transportFailed = FALSE
  /\ delivered = <<>>
  /\ active = <<>>
  /\ nCommands = 0
  /\ cmdRet = NoCall
  /\ queryRet = NoCall

\* ------------------------------------------------------------ construction
KeymapRefusedNever(keymap_arg) == FALSE

\* the keymap test of lines 106-109: KeyMapError unless "USA" or "AUNZ"
KeymapRefused(keymap_arg) == keymap_arg # "USA" /\ keymap_arg # "AUNZ"

\* __init__, lines 104-130: the keymap test, the flag, the queues, the bank
\* and one direct query per device
Construct(max_zone, max_partitions, keymap_arg) ==
  /\ ctl = "new"
  /\ args' = [max_zone |-> max_zone, max_partitions |-> max_partitions,
              keymap |-> keymap_arg]
  /\ LET maxdev == [k \in {"ZN", "PA"} |->
                     IF k = "ZN" THEN max_zone ELSE max_partitions]
     IN  IF KeymapRefused(keymap_arg)
         THEN /\ ctl' = "raised"
              /\ UNCHANGED <<keymap, run_flag, command_q, raw_event_q, deviceBank>>
         ELSE /\ ctl' = "control"
              /\ keymap' = keymap_arg
              /\ run_flag' = TRUE
              /\ raw_event_q' = <<>>
              /\ deviceBank' = [k \in {"ZN", "PA"} |->
                                  [i \in 1..maxdev[k] |-> FlexDevice(_NX_MESSAGE_TYPES[k])]]
              /\ command_q' = PrimingQueries(maxdev, "ZN", maxdev["ZN"])
                                \o PrimingQueries(maxdev, "PA", maxdev["PA"])
  /\ UNCHANGED <<serial_conn, threadPcs, ep, clock, written, reads,
                 transportFailed, delivered, active, callVars>>

\* _control: open the port and start the three threads, or print the
\* SerialException and start nothing
Control ==
  /\ ctl = "control"
  /\ ctl' = "configure"
  /\ \/ /\ serial_conn' = "open"
        /\ writerPc' = "get"
        /\ readerPc' = "read"
        /\ epPc' = "loop"
     \/ UNCHANGED <<serial_conn, threadPcs>>
  /\ UNCHANGED <<args, keymap, run_flag, command_q, raw_event_q, deviceBank, ep,
                 clock, written, reads, transportFailed, delivered, active,
                 callVars>>

\* _configure_nx587e(START_UP_OPTIONS), after which __init__ returns
Configure ==
  /\ ctl = "configure"
  /\ ctl' = "ready"
  /\ command_q' = Append(command_q, START_UP_OPTIONS)
  /\ UNCHANGED <<args, keymap, run_flag, raw_event_q, deviceBank, serial_conn,
                 threadPcs, ep, clock, written, reads, transportFailed,
                 delivered, active, callVars>>

\* _direct_query called on a constructed Controller, while fewer than
\* MaxQueued commands wait
_direct_query(query_type, id) ==
  /\ ctl = "ready"
  /\ Len(command_q) < MaxQueued
  /\ command_q' = command_q \o DirectQueryPut(_NX_MAX_DEVICES, query_type, id)
  /\ UNCHANGED <<ctlVars, run_flag, raw_event_q, deviceBank, serial_conn,
                 threadPcs, ep, clock, written, reads, transportFailed,
                 delivered, active, callVars>>

\* ------------------------------------------------------- application calls
panel_command(in_command) ==
  /\ ctl = "ready"
  /\ nCommands < MaxCommands
  /\ nCommands' = nCommands + 1
  /\ LET out == CommandOutcome(keymap, in_command)
     IN  /\ cmdRet' = out @@ [in_command |-> in_command]
         /\ command_q' = IF out.kind = "return" /\ out.command # <<>>
                         THEN Append(command_q, out.command)
                         ELSE command_q
  /\ UNCHANGED <<ctlVars, run_flag, raw_event_q, deviceBank, serial_conn,
                 threadPcs, ep, clock, written, reads, transportFailed,
                 delivered, active, queryRet>>

\* invalid_status of getStatus
invalid_status == <<"-1", "-1">>

IdValidOffByOne(query_type, id) == id <= _NX_MAX_DEVICES[query_type] + 1

\* the id test of line 270
IdValid(query_type, id) == id <= _NX_MAX_DEVICES[query_type]

\* getStatus: invalid_status for an unknown type or an id above the max, else
\* the element's value and time read from deviceBank[query_type][id-1].
\* `invalid` tells which of the two lists was returned.
StatusOutcome(query_type, id, element) ==
  IF query_type \in DOMAIN _NX_MESSAGE_TYPES
  THEN IF IdValid(query_type, id)
       THEN LET at == PyIndex(Len(deviceBank[query_type]), id - 1)
            IN  IF at = 0 THEN [kind |-> "raise", exc |-> "IndexError"]
                ELSE [kind |-> "return", invalid |-> FALSE,
                      status |-> <<FlexGet(deviceBank[query_type][at], element),
                                   FlexGetTime(deviceBank[query_type][at], element)>>]
       ELSE [kind |-> "return", invalid |-> TRUE, status |-> invalid_status]
  ELSE [kind |-> "return", invalid |-> TRUE, status |-> invalid_status]

getStatus(query_type, id, element) ==
  /\ ctl = "ready"
  /\ queryRet' = StatusOutcome(query_type, id, element)
  /\ UNCHANGED <<ctlVars, run_flag, command_q, raw_event_q, deviceBank,
                 serial_conn, threadPcs, ep, clock, written, reads,
                 transportFailed, delivered, active, nCommands, cmdRet>>

\* getStatus as a caller thread runs it beside the Event-Processor: line 271
\* reads the value (an invalid request returns at once) ...
getStatusValue(query_type, id, element) ==
  /\ ctl = "ready"
  /\ queryRet.kind # "reading"
  /\ LET out == StatusOutcome(query_type, id, element)
     IN  queryRet' =
           IF out.kind = "return" /\ ~out.invalid
           THEN [kind |-> "reading", query_type |-> query_type, id |-> id,
                 element |-> element, cached_attribute |-> out.status[1]]
           ELSE out
  /\ UNCHANGED <<ctlVars, run_flag, command_q, raw_event_q, deviceBank,
                 serial_conn, threadPcs, ep, clock, written, reads,
                 transportFailed, delivered, active, nCommands, cmdRet>>

\* ... and line 272 reads element + "_time" with a second get; nothing keeps
\* the Event-Processor from calling set between the two
getStatusTime ==
  /\ queryRet.kind = "reading"
  /\ LET at == PyIndex(Len(deviceBank[queryRet.query_type]), queryRet.id - 1)
         cached_attribute_time ==
           FlexGetTime(deviceBank[queryRet.query_type][at], queryRet.element)
     IN  queryRet' = [kind |-> "return", invalid |-> FALSE,
                      status |-> <<queryRet.cached_attribute, cached_attribute_time>>,
                      query_type |-> queryRet.query_type, id |-> queryRet.id,
                      element |-> queryRet.element]
  /\ UNCHANGED <<ctlVars, run_flag, command_q, raw_event_q, deviceBank,
                 serial_conn, threadPcs, ep, clock, written, reads,
                 transportFailed, delivered, active, nCommands, cmdRet>>

stop ==
  /\ ctl = "ready"
  /\ run_flag' = FALSE
  /\ UNCHANGED <<ctlVars, command_q, raw_event_q, deviceBank, serial_conn,
                 threadPcs, ep, clock, written, reads, transportFailed,
                 delivered, active, callVars>>

\* ------------------------------------------------------------------ Writer
get_newest(q) == [item |-> q[Len(q)], rest |-> SubSeq(q, 1, Len(q) - 1)]

\* command_q.get(): the oldest command and the queue without it
get(q) == [item |-> Head(q), rest |-> Tail(q)]

\* _serial_writer: one blocking get, the command encoded and written whole
WriterWrite ==
  /\ writerPc = "get"
  /\ command_q # <<>>
  /\ command_q' = get(command_q).rest
  /\ written' = Append(written, Encode(get(command_q).item))
  /\ UNCHANGED <<ctlVars, run_flag, raw_event_q, deviceBank, serial_conn,
                 threadPcs, ep, clock, reads, transportFailed, delivered,
                 active, callVars>>

\* serial_conn.write raises: nothing in _serial_writer catches it
WriterWriteFails ==
  /\ writerPc = "get"
  /\ command_q # <<>>
  /\ command_q' = get(command_q).rest
  /\ writerPc' = "dead"
  /\ UNCHANGED <<ctlVars, run_flag, raw_event_q, deviceBank, serial_conn,
                 readerPc, epPc, ep, clock, written, reads, transportFailed,
                 delivered, active, callVars>>

\* ------------------------------------------------------------------ Reader
\* where the Reader is after `except serial.SerialException: pass`
AfterReadFailure == "read"

\* _serial_reader: readline() returns wire_line; the stripped line is put
\* when it is not empty
ReaderRead(wire_line) ==
  /\ readerPc = "read"
  /\ reads < MaxReads
  /\ reads' = reads + 1
  /\ LET raw_line == Strip(wire_line)
     IN  raw_event_q' = IF raw_line # <<>>
                        THEN Append(raw_event_q, [line |-> raw_line, src |-> reads + 1])
                        ELSE raw_event_q
  /\ UNCHANGED <<ctlVars, run_flag, command_q, deviceBank, serial_conn,
                 threadPcs, ep, clock, written, transportFailed, delivered,
                 active, callVars>>

\* readline() raises serial.SerialException: caught, passed, the loop goes on
ReaderReadFails ==
  /\ readerPc = "read"
  /\ reads < MaxReads
  /\ reads' = reads + 1
  /\ transportFailed' = TRUE
  /\ readerPc' = AfterReadFailure
  /\ UNCHANGED <<ctlVars, run_flag, command_q, raw_event_q, deviceBank,
                 serial_conn, writerPc, epPc, ep, clock, written, delivered,
                 active, callVars>>

\* --------------------------------------------------------- Event-Processor
\* `while self._run_flag:` of _event_producer
EPCheckFlag ==
  /\ epPc = "loop"
  /\ epPc' = IF run_flag THEN "get" ELSE "exited"
  /\ UNCHANGED <<ctlVars, run_flag, command_q, raw_event_q, deviceBank,
                 serial_conn, writerPc, readerPc, ep, clock, written, reads,
                 transportFailed, delivered, active, callVars>>

get_nowait_newest(q) == [item |-> q[Len(q)], rest |-> SubSeq(q, 1, Len(q) - 1)]

\* raw_event_q.get_nowait(): the oldest line and the queue without it
get_nowait(q) == [item |-> Head(q), rest |-> Tail(q)]

\* where _process_event stands once the message is decoded; a call that
\* returns without a message leaves in ep how it ended ("nomatch", "ignored")
AfterDecode(d, src) ==
  IF d.kind = "msg" /\ Len(d.NXMessage) > 0
  THEN [pc |-> "attr",
        ep |-> [kind |-> "msg", key |-> d.key, id |-> d.id,
                NXMessage |-> d.NXMessage, i |-> 1, src |-> src]]
  ELSE [pc |-> CASE d.kind = "hang" -> "hung"
                 [] d.kind = "raise" -> "dead"
                 [] OTHER -> "loop",
        ep |-> IF d.kind \in {"nomatch", "ignored"} THEN [kind |-> d.kind]
               ELSE NoEvent]

\* sleep, get_nowait and the decoding part of _process_event (lines 162-209)
EPGet ==
  /\ epPc = "get"
  /\ IF raw_event_q = <<>>
     THEN /\ epPc' = "loop"
          /\ UNCHANGED <<raw_event_q, ep, clock>>
     ELSE LET got == get_nowait(raw_event_q)
              item == got.item
              next == AfterDecode(Decode(_NX_MAX_DEVICES, item.line), item.src)
          IN  /\ raw_event_q' = got.rest
              /\ clock' = clock + 1
              /\ epPc' = next.pc
              /\ ep' = next.ep
  /\ UNCHANGED <<ctlVars, run_flag, command_q, deviceBank, serial_conn,
                 writerPc, readerPc, written, reads, transportFailed,
                 delivered, active, callVars>>

\* the order in which the for loop of line 211 visits NXMessage
AttrAt(msg, i) == msg[i]

SkipCallbackNever(previous_attribute_value) == FALSE

\* skip_callback of lines 219-222
SkipCallback(previous_attribute_value) == previous_attribute_value = UNKNOWN

DiffersAlways(previous_attribute_value, msg_value) == TRUE

\* an element differs from the stored one (line 220)
Differs(previous_attribute_value, msg_value) == previous_attribute_value # msg_value

\* the EP after the body of the for loop for element i: the next element or
\* the end of _process_event
EPAdvance(e) ==
  IF e.i < Len(e.NXMessage)
  THEN [pc |-> "attr", ep |-> [e EXCEPT !.i = e.i + 1]]
  ELSE [pc |-> "loop", ep |-> NoEvent]

CallbackNotAwaited(e) == EPAdvance(e)

\* the EP while callbackf(event) runs: the call is synchronous
DuringCallback(e) == [pc |-> "callback", ep |-> e]

\* one pass of the for loop of lines 211-243
EPAttr ==
  /\ epPc = "attr"
  /\ LET key == ep.key
         at == PyIndex(Len(deviceBank[key]), ep.id - 1)
         m == AttrAt(ep.NXMessage, ep.i)
     IN  IF at = 0
         THEN /\ epPc' = "dead"
              /\ ep' = NoEvent
              /\ UNCHANGED <<deviceBank, delivered, active>>
         ELSE LET previous_attribute_value == FlexGet(deviceBank[key][at], m.tag)
              IN  IF Differs(previous_attribute_value, m.value)
                  THEN LET bank == [deviceBank EXCEPT ![key][at] =
                                      FlexSet(@, m.tag, m.value, clock)]
                           event == [event |-> key, id |-> ep.id, tag |-> m.tag,
                                     value |-> m.value,
                                     time |-> FlexGetTime(bank[key][at], m.tag),
                                     src |-> ep.src, pos |-> ep.i]
                           next == IF SkipCallback(previous_attribute_value)
                                   THEN EPAdvance(ep) ELSE DuringCallback(ep)
                       IN  /\ deviceBank' = bank
                           /\ epPc' = next.pc
                           /\ ep' = next.ep
                           /\ IF SkipCallback(previous_attribute_value)
                              THEN UNCHANGED <<delivered, active>>
                              ELSE /\ delivered' = Append(delivered, event)
                                   /\ active' = Append(active, event)
                  ELSE /\ epPc' = EPAdvance(ep).pc
                       /\ ep' = EPAdvance(ep).ep
                       /\ UNCHANGED <<deviceBank, delivered, active>>
  /\ UNCHANGED <<ctlVars, run_flag, command_q, raw_event_q, serial_conn,
                 writerPc, readerPc, clock, written, reads, transportFailed,
                 callVars>>

\* callbackf(event) returns
EPCallbackReturn ==
  /\ active # <<>>
  /\ active' = Tail(active)
  /\ IF epPc = "callback"
     THEN /\ epPc' = EPAdvance(ep).pc
          /\ ep' = EPAdvance(ep).ep
     ELSE UNCHANGED <<epPc, ep>>
  /\ UNCHANGED <<ctlVars, run_flag, command_q, raw_event_q, deviceBank,
                 serial_conn, writerPc, readerPc, clock, written, reads,
                 transportFailed, delivered, callVars>>

\* ----------------------------------------------------------- specification
\* the whole system but panel_command: construction, the three workers,
\* status lines arriving or the read failing, queries and stop()
Next ==
  \/ \E max_zone \in ZoneArgs, max_partitions \in PartitionArgs :
       \E keymap_arg \in PipelineKeymapArgs :
         Construct(max_zone, max_partitions, keymap_arg)
  \/ Control
  \/ Configure
  \/ \E query_type \in QueryTypes, id \in QueryIds :
       \E element \in QueryElements(query_type) : getStatus(query_type, id, element)
  \/ stop
  \/ WriterWrite
  \/ WriterWriteFails
  \/ \E wire_line \in WireLines : ReaderRead(wire_line)
  \/ ReaderReadFails
  \/ EPCheckFlag
  \/ EPGet
  \/ EPAttr
  \/ EPCallbackReturn

Spec == Init /\ [][Next]_vars

\* the inbound pipeline alone: construction, status lines arriving, the
\* Event-Processor and queries of the bank
PipelineNext ==
  \/ \E max_zone \in ZoneArgs, max_partitions \in PartitionArgs :
       \E keymap_arg \in PipelineKeymapArgs :
         Construct(max_zone, max_partitions, keymap_arg)
  \/ Control
  \/ Configure
  \/ \E query_type \in PipelineQueryTypes, id \in PipelineQueryIds :
       \E element \in QueryElements(query_type) : getStatus(query_type, id, element)
  \/ \E wire_line \in WireLines : ReaderRead(wire_line)
  \/ EPCheckFlag
  \/ EPGet
  \/ EPAttr
  \/ EPCallbackReturn

PipelineSpec == Init /\ [][PipelineNext]_vars

\* the outbound side: construction, panel_command and the Writer
CallNext ==
  \/ \E max_zone \in ZoneArgs, max_partitions \in PartitionArgs :
       \E keymap_arg \in KeymapArgs :
         Construct(max_zone, max_partitions, keymap_arg)
  \/ Control
  \/ Configure
  \/ \E in_command \in CommandInputs : panel_command(in_command)
  \/ WriterWrite
  \/ WriterWriteFails

CallSpec == Init /\ [][CallNext]_vars

\* queries of any type and id, valid or not, on a constructed Controller
QueryNext ==
  \/ \E max_zone \in ZoneArgs, max_partitions \in PartitionArgs :
       \E keymap_arg \in KeymapArgs :
         Construct(max_zone, max_partitions, keymap_arg)
  \/ Control
  \/ Configure
  \/ \E query_type \in QueryTypes, id \in QueryIds :
       \E element \in QueryElements(query_type) : getStatus(query_type, id, element)
  \/ stop
  \/ WriterWrite
  \/ WriterWriteFails

QuerySpec == Init /\ [][QueryNext]_vars

\* a query read by read beside the Event-Processor applying status lines
QueryRaceNext ==
  \/ \E max_zone \in ZoneArgs, max_partitions \in PartitionArgs :
       \E keymap_arg \in PipelineKeymapArgs :
         Construct(max_zone, max_partitions, keymap_arg)
  \/ Control
  \/ Configure
  \/ \E query_type \in PipelineQueryTypes, id \in PipelineQueryIds :
       \E element \in QueryElements(query_type) :
         getStatusValue(query_type, id, element)
  \/ getStatusTime
  \/ \E wire_line \in FlipLines : ReaderRead(wire_line)
  \/ EPCheckFlag
  \/ EPGet
  \/ EPAttr
  \/ EPCallbackReturn

QueryRaceSpec == Init /\ [][QueryRaceNext]_vars

\* the inbound pipeline fed with lines the protocol does not allow
ProtocolNext ==
  \/ \E max_zone \in ZoneArgs, max_partitions \in PartitionArgs :
       \E keymap_arg \in PipelineKeymapArgs :
         Construct(max_zone, max_partitions, keymap_arg)
  \/ Control
  \/ Configure
  \/ \E wire_line \in ProtocolLines : ReaderRead(wire_line)
  \/ EPCheckFlag
  \/ EPGet
  \/ EPAttr
  \/ EPCallbackReturn

ProtocolSpec == Init /\ [][ProtocolNext]_vars

\* the decoder applied to full status lines: the Event-Processor alone, with
\* two lines waiting
CodecNext ==
  \/ EPCheckFlag
  \/ EPGet
  \/ EPAttr
  \/ EPCallbackReturn

CodecSpec == CodecInit /\ [][CodecNext]_vars

\* _direct_query alone, over types and ids inside and outside the maxima
DirectQueryNext ==
  \E query_type \in DirectQueryTypes, id \in DirectQueryIds :
    _direct_query(query_type, id)

DirectQuerySpec == DirectQueryInit /\ [][DirectQueryNext]_vars

\* lines and queries that name device 0 or a negative id
ZeroIdNext ==
  \/ \E max_zone \in ZoneArgs, max_partitions \in PartitionArgs :
       \E keymap_arg \in PipelineKeymapArgs :
         Construct(max_zone, max_partitions, keymap_arg)
  \/ Control
  \/ Configure
  \/ \E query_type \in PipelineQueryTypes, id \in ZeroIdQueryIds :
       \E element \in QueryElements(query_type) : getStatus(query_type, id, element)
  \/ \E wire_line \in ZeroIdLines : ReaderRead(wire_line)
  \/ EPCheckFlag
  \/ EPGet
  \/ EPAttr
  \/ EPCallbackReturn

ZeroIdSpec == Init /\ [][ZeroIdNext]_vars

\* ------------------------------------------------------------------ claims
\* the element the Event-Processor is about to apply, and where it is stored
CurMsg == ep.NXMessage[ep.i]
CurInRange == ep.id >= 1 /\ ep.id <= _NX_MAX_DEVICES[ep.key]
CurStored == deviceBank[ep.key][ep.id][CurMsg.tag]

\* C1: priming.  When the Event-Processor applies an element of a message
\* for an in-range device whose stored value is unknown, the value is stored
\* and callbackf is not called; and a getStatus on an in-range device returns
\* the stored value and time.
C1_Priming ==
  /\ [][(EPAttr /\ CurInRange /\ CurStored.value = UNKNOWN)
          => /\ deviceBank'[ep.key][ep.id][CurMsg.tag].value = CurMsg.value
             /\ delivered' = delivered
             /\ active' = active
             /\ epPc' # "callback"]_vars
  /\ [][\A query_type \in DOMAIN _NX_MESSAGE_TYPES :
          \A id \in 1.._NX_MAX_DEVICES[query_type] :
            \A element \in QueryElements(query_type) :
              (queryRet' # queryRet /\ getStatus(query_type, id, element))
                => /\ queryRet'.kind = "return"
                   /\ ~queryRet'.invalid
                   /\ queryRet'.status =
                        <<deviceBank[query_type][id][element].value,
                          deviceBank[query_type][id][element].time>>]_vars

\* C1 witness: zone 1's fault was primed to True, no callback was ever made
\* and a query has returned the primed value
C1_Witness ==
  /\ ctl = "ready"
  /\ delivered = <<>>
  /\ deviceBank["ZN"][1]["fault"].value = 1
  /\ queryRet.kind = "return"
  /\ ~queryRet.invalid
  /\ queryRet.status[1] = 1

\* C2: for an element whose stored value is a known boolean v, a message
\* carrying the other value stores it with the current, later time and calls
\* callbackf once with the new value; a message carrying v calls nothing and
\* leaves value and time as they were.  No element of a line is reported twice.
C2_FlipEmitsOnce ==
  /\ [][(EPAttr /\ CurInRange /\ CurStored.value # UNKNOWN)
          => IF CurMsg.value # CurStored.value
             THEN /\ deviceBank'[ep.key][ep.id][CurMsg.tag] =
                       [value |-> CurMsg.value, time |-> clock]
                  /\ clock > CurStored.time
                  /\ Len(delivered') = Len(delivered) + 1
                  /\ SubSeq(delivered', 1, Len(delivered)) = delivered
                  /\ LET e == delivered'[Len(delivered')]
                     IN  /\ e.event = ep.key
                         /\ e.id = ep.id
                         /\ e.tag = CurMsg.tag
                         /\ e.value = CurMsg.value
                         /\ e.time = clock
             ELSE /\ delivered' = delivered
                  /\ active' = active
                  /\ deviceBank' = deviceBank]_vars
  /\ [][\A i, j \in 1..Len(delivered') :
          (delivered'[i].src = delivered'[j].src /\ delivered'[i].pos = delivered'[j].pos)
            => i = j]_vars
  /\ [][EPAttr \/ delivered' = delivered]_vars

\* C2 witness: after "ZN001Ftb" then "ZN001ftb", exactly one event, fault of
\* zone 1 turned False, has been delivered and the line is fully processed
C2_Witness ==
  /\ Len(delivered) = 1
  /\ delivered[1].event = "ZN"
  /\ delivered[1].id = 1
  /\ delivered[1].tag = "fault"
  /\ delivered[1].value = 0
  /\ delivered[1].src = 2
  /\ deviceBank["ZN"][1]["fault"] = [value |-> 0, time |-> 2]
  /\ epPc = "loop"
  /\ raw_event_q = <<>>
  /\ reads = 3

\* C3: callbackf is called in the order the lines arrived, and for one line
\* in the order of the element list
C3_DeliveryOrder ==
  \A i, j \in 1..Len(delivered) :
    i < j => \/ delivered[i].src < delivered[j].src
             \/ /\ delivered[i].src = delivered[j].src
                /\ delivered[i].pos < delivered[j].pos

\* C3 witness: two events of one line followed by an event of a later line
C3_Witness ==
  /\ Len(delivered) = 3
  /\ delivered[1].src = delivered[2].src
  /\ delivered[1].tag = "fault"
  /\ delivered[2].tag = "tamper"
  /\ delivered[3].src > delivered[2].src

\* C4: at most one call of callbackf is in progress, and while one is in
\* progress the bank does not change
C4_CallbackExclusive ==
  /\ [][Len(active') <= 1]_vars
  /\ [][active # <<>> => deviceBank' = deviceBank]_vars

\* C4 witness: a callback is in progress while further lines wait in the
\* queue and the message has another element to apply
C4_Witness ==
  /\ Len(active) = 1
  /\ epPc = "callback"
  /\ raw_event_q # <<>>
  /\ ep.i < Len(ep.NXMessage)

\* no worker can take a step: the queues the workers wait on are empty (or
\* their consumer is gone) and the Transport has no more to say
WorkersQuiescent ==
  ~ENABLED (\/ WriterWrite
            \/ WriterWriteFails
            \/ \E wire_line \in WireLines : ReaderRead(wire_line)
            \/ ReaderReadFails
            \/ EPCheckFlag
            \/ EPGet
            \/ EPAttr
            \/ EPCallbackReturn)

\* the Controller's Stopped state: every worker has left its loop (or died)
\* and the Transport is closed
Stopped ==
  /\ writerPc \in {"exited", "dead"}
  /\ readerPc \in {"exited", "dead"}
  /\ epPc \in {"exited", "dead"}
  /\ serial_conn = "closed"

\* C5: after stop() the Controller reaches Stopped: once stop() was called on
\* a Controller whose workers were started, no read or write has failed and
\* no worker can do anything more, all three workers have exited and the
\* Transport is closed.
C5_StopReachesStopped ==
  (/\ ctl = "ready"
   /\ ~run_flag
   /\ serial_conn # "none"
   /\ writerPc # "dead"
   /\ ~transportFailed
   /\ WorkersQuiescent) => Stopped

\* C6: a Transport read failure is fatal: once readline() has raised, the
\* Reader completes no further read.
C6_ReadFailureFatal == [][transportFailed => reads' = reads]_vars

\* a 4- or 6-digit user code
IsUserCode(in_command) == IsDecimal(in_command) /\ Len(in_command) \in {4, 6}

\* the name table of the active keymap
ActiveTable == IF keymap = "AUNZ" THEN AUNZCommands ELSE USACommands

\* the name table of the other keymap
OtherTable == IF keymap = "AUNZ" THEN USACommands ELSE AUNZCommands

\* C7: panel_command with an input that is neither a name of the active
\* keymap's table nor a 4- or 6-digit code raises, puts nothing on the
\* command queue and leaves every worker where it is.
C7_InvalidCommandRejected ==
  [][\A in_command \in CommandInputs :
       (/\ nCommands' # nCommands
        /\ in_command \notin DOMAIN ActiveTable
        /\ ~IsUserCode(in_command)
        /\ panel_command(in_command))
         => /\ cmdRet'.kind = "raise"
            /\ command_q' = command_q
            /\ threadPcs' = threadPcs]_vars

\* C8: panel_command with a 4- or 6-digit code returns and puts exactly that
\* string on the command queue.
C8_UserCodePassThrough ==
  [][\A in_command \in CommandInputs :
       (nCommands' # nCommands /\ IsUserCode(in_command) /\ panel_command(in_command))
         => /\ cmdRet'.kind = "return"
            /\ command_q' = Append(command_q, in_command)]_vars

\* C9: panel_command with a name of the active keymap's table puts exactly
\* the one character the table gives ("partial" under AUNZ puts "K"); a name
\* only the other keymap has ("partial" under USA) raises and puts nothing.
C9_SymbolicCommand ==
  [][\A in_command \in CommandInputs :
       (nCommands' # nCommands /\ panel_command(in_command))
         => /\ in_command \in DOMAIN ActiveTable
                 => /\ cmdRet'.kind = "return"
                    /\ Len(ActiveTable[in_command]) = 1
                    /\ command_q' = Append(command_q, ActiveTable[in_command])
            /\ (in_command \in DOMAIN OtherTable /\ in_command \notin DOMAIN ActiveTable)
                 => /\ cmdRet'.kind = "raise"
                    /\ command_q' = command_q
            /\ (in_command = partial /\ keymap = "AUNZ")
                 => command_q' = Append(command_q, <<"K">>)
            /\ (in_command = partial /\ keymap = "USA")
                 => cmdRet'.kind = "raise"]_vars

\* C9 witness: under AUNZ "partial" was accepted and the Writer has written "K"
C9_Witness ==
  /\ keymap = "AUNZ"
  /\ cmdRet.kind = "return"
  /\ cmdRet.in_command = partial
  /\ command_q = <<>>
  /\ written # <<>>
  /\ written[Len(written)] = <<"K">>

\* C10 as stated: getStatus with an unknown type or an id above the max of
\* its type raises an error instead of returning a list.
C10_QueryRaises ==
  [][\A query_type \in QueryTypes, id \in QueryIds :
       \A element \in QueryElements(query_type) :
         (/\ queryRet' # queryRet
          /\ (query_type \notin DOMAIN _NX_MESSAGE_TYPES
                \/ id > _NX_MAX_DEVICES[query_type])
          /\ getStatus(query_type, id, element))
           => queryRet'.kind = "raise"]_vars

\* C10 amended: getStatus with an unknown type or an id above the max of its
\* type raises nothing and returns the invalid_status list ['-1', '-1'], not
\* the value and time of any device.
C10_QueryReturnsInvalidStatus ==
  [][\A query_type \in QueryTypes, id \in QueryIds :
       \A element \in QueryElements(query_type) :
         (/\ queryRet' # queryRet
          /\ (query_type \notin DOMAIN _NX_MESSAGE_TYPES
                \/ id > _NX_MAX_DEVICES[query_type])
          /\ getStatus(query_type, id, element))
           => /\ queryRet'.kind = "return"
              /\ queryRet'.invalid
              /\ queryRet'.status = invalid_status]_vars

\* C10 witness: a query was answered with invalid_status
C10_Witness ==
  /\ ctl = "ready"
  /\ queryRet.kind = "return"
  /\ queryRet.invalid
  /\ queryRet.status = <<"-1", "-1">>

\* C11: a query running beside the Event-Processor returns a (value, time)
\* pair that one update stored together.  Every update of an element stores a
\* later time than the one before, so the time read second names the update
\* it came from: the pair is whole exactly when the value returned with it is
\* the value stored with that time.
C11_NoTornPair ==
  [][(queryRet.kind = "reading" /\ getStatusTime)
       => queryRet'.status =
            <<deviceBank[queryRet.query_type][queryRet.id][queryRet.element].value,
              deviceBank[queryRet.query_type][queryRet.id][queryRet.element].time>>]_vars

\* C12: construction with a keymap other than "USA" and "AUNZ" fails with the
\* configuration error, and then no worker is started, no Transport is opened
\* and no command is enqueued or written.
C12_BadKeymapRefused ==
  (ctl # "new" /\ args.keymap \notin {"USA", "AUNZ"})
    => /\ ctl = "raised"
       /\ writerPc = "unstarted"
       /\ readerPc = "unstarted"
       /\ epPc = "unstarted"
       /\ serial_conn = "none"
       /\ command_q = <<>>
       /\ written = <<>>

\* C12 witness: the constructor was given "EU" and raised
C12_Witness ==
  /\ ctl = "raised"
  /\ args.keymap = "EU"
  /\ args.max_zone = 1

\* C13: every attribute of every device starts unknown, holds only unknown,
\* true or false, and once it has held true or false it is never unknown
\* again, whatever lines are processed.
C13_KnownStaysKnown ==
  /\ [][ctl = "new"
          => \A k \in DOMAIN deviceBank' : \A i \in 1..Len(deviceBank'[k]) :
               \A e \in DOMAIN deviceBank'[k][i] :
                 deviceBank'[k][i][e] = [value |-> UNKNOWN, time |-> UNKNOWN]]_vars
  /\ [][(ctl # "new" /\ deviceBank' # deviceBank)
          => \A k \in DOMAIN deviceBank : \A i \in 1..Len(deviceBank[k]) :
               \A e \in DOMAIN deviceBank[k][i] :
                 /\ deviceBank'[k][i][e].value \in {UNKNOWN, 0, 1}
                 /\ deviceBank[k][i][e].value # UNKNOWN
                      => deviceBank'[k][i][e].value # UNKNOWN]_vars

\* C13 witness: zone 1's fault was primed True, turned False and turned True
\* again, while an attribute no line carried (bypass is cut off with the last
\* character) is still unknown
C13_Witness ==
  /\ ctl = "ready"
  /\ deviceBank["ZN"][1]["fault"] = [value |-> 1, time |-> 3]
  /\ Len(delivered) = 2
  /\ deviceBank["ZN"][1]["bypass"].value = UNKNOWN

\* q2 is q1 with zero or more commands put at its end
Extends(q1, q2) == Len(q2) >= Len(q1) /\ SubSeq(q2, 1, Len(q1)) = q1

\* C14: commands reach the Transport in the order they were put on the
\* command queue, each as one write of its whole encoding, none lost and none
\* written twice, whatever the interleaving of the callers and the Writer:
\* every step (a write the Transport refuses apart) either leaves what was
\* written alone and only puts commands at the end of the queue, or takes the
\* oldest queued command and appends exactly its bytes as one write.
C14_WrittenInEnqueueOrder ==
  [][~WriterWriteFails
       => \/ /\ written' = written
             /\ Extends(command_q, command_q')
          \/ /\ command_q # <<>>
             /\ command_q' = Tail(command_q)
             /\ written' = Append(written, Encode(Head(command_q)))]_vars

\* C14 witness: both priming queries, the setup string and a caller's command
\* have been written, in that order, and the queue is empty
C14_Witness ==
  /\ command_q = <<>>
  /\ cmdRet.kind = "return"
  /\ written = << <<"Q", "0", "0", "1">>, <<"Q", "1", "9", "3">>,
                  START_UP_OPTIONS, cmdRet.command >>

\* everything the command queue has received, as bytes, in order, as long as
\* no write was refused: what the Writer has taken and what still waits
ReceivedBytes == written \o [i \in 1..Len(command_q) |-> Encode(command_q[i])]

\* one direct query per zone 1..max_zone and per partition 1..max_partitions,
\* then the setup string
StartupCommands ==
  [i \in 1..args.max_zone |-> <<"Q">> \o Zfill(Str(i), 3)]
    \o [i \in 1..args.max_partitions |-> <<"Q">> \o Str(192 + i)]
    \o <<START_UP_OPTIONS>>

\* C15: once construction with a valid keymap has returned, the command
\* queue has received exactly one direct query for every (type, id) with
\* 1 <= id <= max of the type, then the setup string, all of them before any
\* command of panel_command; and panel_command is not called before that.
C15_StartupEnqueuedFirst ==
  /\ (ctl = "ready" /\ writerPc # "dead")
       => /\ Extends(StartupCommands, ReceivedBytes)
          /\ nCommands = 0 => ReceivedBytes = StartupCommands
          /\ Len(ReceivedBytes) <= Len(StartupCommands) + nCommands
  /\ nCommands > 0 => ctl = "ready"

\* C15 witness: the Writer has taken the first query; the second query, the
\* setup string and a caller's command wait behind it in that order
C15_Witness ==
  /\ ctl = "ready"
  /\ written = << <<"Q", "0", "0", "1">> >>
  /\ Len(command_q) = 3
  /\ command_q[1] = <<"Q", "1", "9", "3">>
  /\ command_q[2] = START_UP_OPTIONS
  /\ cmdRet.kind = "return"
  /\ command_q[3] = cmdRet.command

\* the line the Event-Processor takes next
NextLine == Head(raw_event_q).line

\* the decimal digits a line starts with
RECURSIVE DigitPrefix(_)
DigitPrefix(s) ==
  IF Len(s) > 0 /\ s[1] \in DecimalChars
  THEN <<s[1]>> \o DigitPrefix(Tail(s)) ELSE <<>>

\* the tag and the id digits of a line, as the protocol lays them out
TagOf(line) == Slice(line, 0, 2)
IdDigitsOf(line) == DigitPrefix(Slice(line, 2, Len(line)))
TagKnown(line) == TagOf(line) \in {KeyChars(k) : k \in DOMAIN _NX_MESSAGE_TYPES}
MaxOfTag(line) == IF TagOf(line) = KeyChars("ZN") THEN args.max_zone
                  ELSE args.max_partitions

\* the three kinds of protocol-level bad line
UnknownTag(line) == ~TagKnown(line)
NoIdDigit(line) == TagKnown(line) /\ IdDigitsOf(line) = <<>>
IdAboveMax(line) ==
  /\ TagKnown(line)
  /\ IdDigitsOf(line) # <<>>
  /\ ToInt(IdDigitsOf(line)) > MaxOfTag(line)

\* the Event-Processor takes a line off the queue
TakesLine == epPc = "get" /\ raw_event_q # <<>> /\ EPGet

\* C16: a line with an unknown tag, with a known tag and no id digit, or with
\* an id above the max is dropped and the Event-Processor stays alive: taking
\* it changes no device, calls nothing, and leaves the Event-Processor at the
\* top of its loop, ready for the next line.
C16_BadLineDropped ==
  [][(TakesLine /\ (UnknownTag(NextLine) \/ NoIdDigit(NextLine) \/ IdAboveMax(NextLine)))
       => /\ epPc' = "loop"
          /\ deviceBank' = deviceBank
          /\ delivered' = delivered]_vars

\* C17: a line whose id is above the max of its type is ignored as a whole:
\* no value or time of any device changes, callbackf is not called, and the
\* Event-Processor goes on to the next line.
C17_OutOfRangeIgnored ==
  [][(TakesLine /\ IdAboveMax(NextLine))
       => /\ deviceBank' = deviceBank
          /\ delivered' = delivered
          /\ active' = active
          /\ epPc' = "loop"]_vars

\* C17 witness: zone 1 was primed by the first line (fault True, tamper
\* False), the second line, for zone 9 with both the other way round, was
\* taken and ignored, and the bank still holds what the first line stored
C17_Witness ==
  /\ ep = [kind |-> "ignored"]
  /\ epPc = "loop"
  /\ clock = 2
  /\ delivered = <<>>
  /\ deviceBank["ZN"][1]["fault"] = [value |-> 1, time |-> 1]
  /\ deviceBank["ZN"][1]["tamper"] = [value |-> 0, time |-> 1]

\* C20: decoding terminates for every line, so the Event-Processor is never
\* caught in the scan for the id digits.
C20_DecodeTerminates == epPc # "hung"

\* the declared attribute count of a line's type
AttributeCount(line) == IF TagOf(line) = KeyChars("ZN") THEN 9 ELSE 8

\* the declared attribute names of a line's type
AttributeNames(line) ==
  IF TagOf(line) = KeyChars("ZN") THEN _ZONE_ELEMENTS ELSE _PARTITION_ELEMENTS

\* a valid status line: a known tag, an id of 1 to 3 digits within the max of
\* the type, the type's full count of attribute characters, one terminator
ValidStatusLine(line) ==
  /\ TagKnown(line)
  /\ Len(IdDigitsOf(line)) \in 1..3
  /\ ToInt(IdDigitsOf(line)) \in 1..MaxOfTag(line)
  /\ Len(line) = 2 + Len(IdDigitsOf(line)) + AttributeCount(line) + 1

\* the i-th attribute character of a line
AttributeChar(line, i) == line[2 + Len(IdDigitsOf(line)) + i]

ThreeDigits(n) ==
  IF n < 10 THEN <<"0", "0">> \o Str(n)
  ELSE IF n < 100 THEN <<"0">> \o Str(n)
  ELSE Str(n)

\* C19: a direct query for zone id, 1 <= id <= max_zone, puts "Q" and the id
\* padded with zeros to three digits; for partition id, 1 <= id <=
\* max_partitions, it puts "Q" and 192 + id unpadded; for an unknown type or
\* an id above the max it puts nothing.  Zone 5 gives "Q005" and partition 2
\* gives "Q194".
C19_DirectQueryString ==
  [][\A query_type \in DirectQueryTypes, id \in DirectQueryIds :
       _direct_query(query_type, id)
         => /\ (query_type = "ZN" /\ id <= args.max_zone)
                 => command_q' = Append(command_q, <<"Q">> \o ThreeDigits(id))
            /\ (query_type = "PA" /\ id <= args.max_partitions)
                 => command_q' = Append(command_q, <<"Q">> \o Str(192 + id))
            /\ (query_type \notin {"ZN", "PA"} \/ id > _NX_MAX_DEVICES[query_type])
                 => command_q' = command_q
            /\ (query_type = "ZN" /\ id = 5 /\ args.max_zone >= 5)
                 => command_q' = Append(command_q, <<"Q", "0", "0", "5">>)
            /\ (query_type = "PA" /\ id = 2 /\ args.max_partitions >= 2)
                 => command_q' = Append(command_q, <<"Q", "1", "9", "4">>)]_vars

\* C19 witness: with 5 zones and 2 partitions, the queries for zone 5 and
\* partition 2 wait on the command queue
C19_Witness ==
  /\ args.max_zone = 5
  /\ args.max_partitions = 2
  /\ command_q = << <<"Q", "0", "0", "5">>, <<"Q", "1", "9", "4">> >>

\* C21: device ids lie in 1..max.  Applying a line whose id is 0 changes no
\* device's value or time and calls nothing, and a query with id 0 or a
\* negative id is refused (raises or returns invalid_status): it never
\* returns the state of a device.
C21_IdsStartAtOne ==
  /\ [][(EPAttr /\ ep.id = 0)
          => /\ deviceBank' = deviceBank
             /\ delivered' = delivered]_vars
  /\ [][\A query_type \in PipelineQueryTypes, id \in ZeroIdQueryIds :
          \A element \in QueryElements(query_type) :
            (queryRet' # queryRet /\ id < 1 /\ getStatus(query_type, id, element))
              => \/ queryRet'.kind = "raise"
                 \/ queryRet'.invalid]_vars

====
